---- MODULE Spec2Model ----
(***************************************************************************)
(* Model of the evaluation core of eval.py: nms, bbox_iou,                 *)
(* average_precision and custom_eval.                                      *)
(*                                                                         *)
(* Tensor and array values are floating point numbers.  Every input is an  *)
(* integer-valued coordinate or count, so every value the code computes is *)
(* a quotient of two integers; a value is modelled exactly as a pair       *)
(* <<n, d>>: d > 0 is the number n/d in lowest terms, <<1, 0>> and         *)
(* <<-1, 0>> are +inf and -inf, <<0, 0>> is NaN (what x/0 yields on float  *)
(* tensors).  Indices are 0-based as in the source; a sequence s of the    *)
(* model holds the source's s[j] at position j + 1.                        *)
(***************************************************************************)
EXTENDS Integers, Sequences, FiniteSets, TLC

VARIABLES mode, pc, err,
          boxes, scores, overlap, top_k, order, idx, keep, count, run, first,
          box1, box2, iou,
          image_num, predictions, ground_truths, num_gts, ovthresh, img, tp, fp,
          rec, prec, ap

vars == <<mode, pc, err,
          boxes, scores, overlap, top_k, order, idx, keep, count, run, first,
          box1, box2, iou,
          image_num, predictions, ground_truths, num_gts, ovthresh, img, tp, fp,
          rec, prec, ap>>

nmsVars == <<boxes, scores, overlap, top_k, order, idx, keep, count, run, first>>
iouVars == <<box1, box2, iou>>
evalVars == <<image_num, predictions, ground_truths, num_gts, ovthresh, img, tp, fp>>
apVars == <<rec, prec, ap>>

----------------------------------------------------------------------------
(* Bounds of the model. *)
MaxBoxes == 3
MaxTopK == 3
MaxImages == 2
MaxPreds == 2
MaxGts == 1
MaxNumGts == 2
MaxCurve == 2

----------------------------------------------------------------------------
(* Floating point values as exact quotients. *)
Abs(x) == IF x < 0 THEN -x ELSE x

Sign(x) == IF x > 0 THEN 1 ELSE IF x < 0 THEN -1 ELSE 0

RECURSIVE GCD(_, _)
GCD(a, b) == IF b = 0 THEN a ELSE GCD(b, a % b)

Div(a, b) ==
    IF b = 0 THEN <<Sign(a), 0>>
    ELSE LET g == GCD(Abs(a), Abs(b))
         IN  <<(Sign(b) * a) \div g, Abs(b) \div g>>

Zero == Div(0, 1)
One == Div(1, 1)

IsNaN(x) == x = <<0, 0>>

Le(x, y) ==
    IF IsNaN(x) \/ IsNaN(y) THEN FALSE
    ELSE IF x[2] = 0 /\ y[2] = 0 THEN x[1] <= y[1]
    ELSE x[1] * y[2] <= y[1] * x[2]

Lt(x, y) ==
    IF IsNaN(x) \/ IsNaN(y) THEN FALSE
    ELSE IF x[2] = 0 /\ y[2] = 0 THEN x[1] < y[1]
    ELSE x[1] * y[2] < y[1] * x[2]

Gt(x, y) == Lt(y, x)

Ge(x, y) == Le(y, x)

Sub(x, y) == Div(x[1] * y[2] - y[1] * x[2], x[2] * y[2])

Add(x, y) == Div(x[1] * y[2] + y[1] * x[2], x[2] * y[2])

Mul(x, y) == Div(x[1] * y[1], x[2] * y[2])

(* np.maximum / np.max of two values: NaN propagates. *)
Maximum(x, y) ==
    IF IsNaN(x) \/ IsNaN(y) THEN <<0, 0>>
    ELSE IF Lt(x, y) THEN y ELSE x

(* torch.clamp(x, min=0) on an integer-valued coordinate difference. *)
clamp_min0(x) == IF x < 0 THEN 0 ELSE x

Max2(a, b) == IF a >= b THEN a ELSE b

Min2(a, b) == IF a <= b THEN a ELSE b

----------------------------------------------------------------------------
(* The boxes the inputs are drawn from, as <<x1, y1, x2, y2>>.             *)
(*   BoxA, BoxB overlap: IoU 1/2 the way nms computes it, 2/3 the way      *)
(*   bbox_iou computes it; BoxC is disjoint from both; BoxD has zero width *)
(*   and negative height.                                                  *)
BoxA == <<0, 0, 2, 2>>
BoxB == <<1, 0, 2, 2>>
BoxC == <<3, 3, 4, 4>>
BoxD == <<0, 2, 0, 0>>

BoxUniverse == {BoxA, BoxB, BoxC, BoxD}

(* The boxes, scores and thresholds nms is run on. *)
NmsBoxes == {BoxA, BoxB, BoxD}

ScoreLevels == {1, 2}

NmsThresholds == {Div(1, 2), One}

ValidBox(b) == b[1] < b[3] /\ b[2] < b[4]

SeqsUpTo(S, n) == UNION {[1..k -> S] : k \in 0..n}

Range(s) == {s[k] : k \in 1..Len(s)}

----------------------------------------------------------------------------
(* nms *)

(* the area with the inclusive-pixel + 1 *)
nms_area_plus1(b) == (b[3] - b[1] + 1) * (b[4] - b[2] + 1)

(* area = torch.mul(x2 - x1, y2 - y1) *)
nms_area(b) == (b[3] - b[1]) * (b[4] - b[2])

(* scores.sort(0): the index sequences that list the scores in ascending   *)
(* order.  The sort is not requested stable, so the order among equal      *)
(* scores is any of the possible ones.                                     *)
ArgSorts(s) ==
    LET n == Len(s)
    IN  {p \in [1..n -> 0..(n - 1)] :
            /\ \A a, b \in 1..n : a # b => p[a] # p[b]
            /\ \A a \in 1..n : a < n => s[p[a] + 1] <= s[p[a + 1] + 1]}

(* idx[-top_k:] with the slice semantics of the language: -0 is 0, so a    *)
(* cutoff of 0 selects the whole sequence; a cutoff beyond the length      *)
(* selects the whole sequence too.                                         *)
TopKSlice(s, k) ==
    IF k = 0 \/ k >= Len(s) THEN s
    ELSE SubSeq(s, Len(s) - k + 1, Len(s))

(* w*h after clamping: overlap of box bj with the emitted box bi *)
nms_inter(bi, bj) ==
    LET xx1 == Max2(bj[1], bi[1])
        yy1 == Max2(bj[2], bi[2])
        xx2 == Min2(bj[3], bi[3])
        yy2 == Min2(bj[4], bi[4])
    IN  clamp_min0(xx2 - xx1) * clamp_min0(yy2 - yy1)

(* IoU = inter / ((rem_areas - inter) + area[i]) *)
nms_IoU(bi, bj) ==
    LET inter == nms_inter(bi, bj)
    IN  Div(inter, (nms_area(bj) - inter) + nms_area(bi))

(* IoU.lt(overlap) *)
nms_lt(v, thr) == Lt(v, thr)

(* IoU.le(overlap) *)
nms_le(v, thr) == Le(v, thr)

(* idx = idx[:-1]; ...; idx = idx[IoU.le(overlap)] *)
nms_filter(bxs, s, thr) ==
    LET i == s[Len(s)]
        rest == SubSeq(s, 1, Len(s) - 1)
        Test(j) == nms_le(nms_IoU(bxs[i + 1], bxs[j + 1]), thr)
    IN  SelectSeq(rest, Test)

(* a break one element early *)
nms_break_early(s) == Len(s) <= 2

(* if idx.size(0) == 1: break *)
nms_break(s) == Len(s) = 1

NmsCall ==
    /\ mode = "nms" /\ pc = "call"
    /\ keep' = [k \in 1..Len(scores) |-> 0]
    /\ count' = 0
    /\ IF Len(boxes) = 0
       THEN /\ idx' = <<>>
            /\ order' = <<>>
            /\ pc' = "done"
       ELSE /\ \E s \in ArgSorts(scores) : idx' = TopKSlice(s, top_k)
            /\ order' = idx'
            /\ pc' = "loop"
    /\ UNCHANGED <<mode, err, boxes, scores, overlap, top_k, run, first>>
    /\ UNCHANGED <<iouVars, evalVars, apVars>>

NmsRound ==
    /\ mode = "nms" /\ pc = "loop"
    /\ Len(idx) > 0
    /\ keep' = [keep EXCEPT ![count + 1] = idx[Len(idx)]]
    /\ count' = count + 1
    /\ IF nms_break(idx)
       THEN /\ idx' = idx
            /\ pc' = "break"
       ELSE /\ idx' = nms_filter(boxes, idx, overlap)
            /\ pc' = "loop"
    /\ UNCHANGED <<mode, err, boxes, scores, overlap, top_k, order, run, first>>
    /\ UNCHANGED <<iouVars, evalVars, apVars>>

NmsReturn ==
    /\ mode = "nms"
    /\ \/ pc = "loop" /\ Len(idx) = 0
       \/ pc = "break"
    /\ pc' = "done"
    /\ UNCHANGED <<mode, err, nmsVars, iouVars, evalVars, apVars>>

(* The caller runs nms again on the boxes kept, keep[:count], with their   *)
(* scores and the same overlap and top_k.                                  *)
NmsAgain ==
    /\ mode = "nms" /\ pc = "done" /\ run = 1
    /\ first' = [boxes |-> boxes, scores |-> scores, keep |-> keep,
                 count |-> count, order |-> order]
    /\ boxes' = [k \in 1..count |-> boxes[keep[k] + 1]]
    /\ scores' = [k \in 1..count |-> scores[keep[k] + 1]]
    /\ run' = 2
    /\ pc' = "call"
    /\ idx' = <<>> /\ order' = <<>> /\ keep' = <<>> /\ count' = 0
    /\ UNCHANGED <<mode, err, overlap, top_k>>
    /\ UNCHANGED <<iouVars, evalVars, apVars>>

NoFirst == [boxes |-> <<>>, scores |-> <<>>, keep |-> <<>>, count |-> 0,
            order |-> <<>>]

IdleNms ==
    /\ boxes = <<>> /\ scores = <<>> /\ overlap = Zero /\ top_k = 0
    /\ order = <<>> /\ idx = <<>> /\ keep = <<>> /\ count = 0
    /\ run = 0 /\ first = NoFirst

IdleIou == box1 = BoxA /\ box2 = BoxA /\ iou = Zero

IdleEval ==
    /\ image_num = 0 /\ predictions = <<>> /\ ground_truths = <<>>
    /\ num_gts = 0 /\ ovthresh = Zero /\ img = 0 /\ tp = <<>> /\ fp = <<>>

IdleAp == rec = <<>> /\ prec = <<>> /\ ap = Zero

InitNms ==
    /\ mode = "nms" /\ pc = "call" /\ err = "none"
    /\ boxes \in SeqsUpTo(NmsBoxes, MaxBoxes)
    /\ scores \in [1..Len(boxes) -> ScoreLevels]
    /\ overlap \in NmsThresholds
    /\ top_k \in 0..MaxTopK
    /\ order = <<>> /\ idx = <<>> /\ keep = <<>> /\ count = 0
    /\ run = 1 /\ first = NoFirst
    /\ IdleIou /\ IdleEval /\ IdleAp

----------------------------------------------------------------------------
(* bbox_iou *)

(* the area with each side clamped at 0 *)
bbox_area_clamped(b) == clamp_min0(b[3] - b[1] + 1) * clamp_min0(b[4] - b[2] + 1)

(* (x2 - x1 + 1)*(y2 - y1 + 1) *)
bbox_area(b) == (b[3] - b[1] + 1) * (b[4] - b[2] + 1)

(* clamp(inter_rect_x2 - inter_rect_x1 + 1, min=0) * clamp(..y.., min=0) *)
bbox_inter_area(b1, b2) ==
    LET inter_rect_x1 == Max2(b1[1], b2[1])
        inter_rect_y1 == Max2(b1[2], b2[2])
        inter_rect_x2 == Min2(b1[3], b2[3])
        inter_rect_y2 == Min2(b1[4], b2[4])
    IN  clamp_min0(inter_rect_x2 - inter_rect_x1 + 1)
          * clamp_min0(inter_rect_y2 - inter_rect_y1 + 1)

bbox_iou(b1, b2) ==
    LET inter_area == bbox_inter_area(b1, b2)
    IN  Div(inter_area, bbox_area(b1) + bbox_area(b2) - inter_area)

BboxIouCall ==
    /\ mode = "iou" /\ pc = "call"
    /\ iou' = bbox_iou(box1, box2)
    /\ pc' = "done"
    /\ UNCHANGED <<mode, err, box1, box2, nmsVars, evalVars, apVars>>

InitIou ==
    /\ mode = "iou" /\ pc = "call" /\ err = "none"
    /\ box1 \in BoxUniverse /\ box2 \in BoxUniverse /\ iou = Zero
    /\ IdleNms /\ IdleEval /\ IdleAp

----------------------------------------------------------------------------
(* average_precision, use_07_metric=False *)

(* for i in range(mpre.size - 1, 0, -1):                                   *)
(*     mpre[i - 1] = np.maximum(mpre[i - 1], mpre[i])                      *)
RECURSIVE envelope(_, _)
envelope(mpre, k) ==
    IF k < 2 THEN mpre
    ELSE envelope([mpre EXCEPT ![k - 1] = Maximum(mpre[k - 1], mpre[k])], k - 1)

(* a term that takes the recall instead of its increase *)
ap_term_no_delta(mrec, mpre, k) == Mul(mrec[k + 1], mpre[k + 1])

(* one term of np.sum((mrec[i + 1] - mrec[i]) * mpre[i + 1]) *)
ap_term(mrec, mpre, k) == Mul(Sub(mrec[k + 1], mrec[k]), mpre[k + 1])

(* the sum over i = np.where(mrec[1:] != mrec[:-1])[0], taken up to k *)
RECURSIVE ap_sum(_, _, _)
ap_sum(mrec, mpre, k) ==
    IF k = 0 THEN Zero
    ELSE IF mrec[k + 1] # mrec[k]
         THEN Add(ap_sum(mrec, mpre, k - 1), ap_term(mrec, mpre, k))
         ELSE ap_sum(mrec, mpre, k - 1)

average_precision(r, p) ==
    LET mrec == <<Zero>> \o r \o <<One>>
        mpre0 == <<Zero>> \o p \o <<Zero>>
        mpre == envelope(mpre0, Len(mpre0))
    IN  ap_sum(mrec, mpre, Len(mrec) - 1)

AveragePrecisionCall ==
    /\ mode = "ap" /\ pc = "call"
    /\ ap' = average_precision(rec, prec)
    /\ pc' = "done"
    /\ UNCHANGED <<mode, err, rec, prec, nmsVars, iouVars, evalVars>>

CurveValues == {Zero, Div(1, 2), One}

InitAp ==
    /\ mode = "ap" /\ pc = "call" /\ err = "none"
    /\ rec \in SeqsUpTo(CurveValues, MaxCurve)
    /\ prec \in [1..Len(rec) -> CurveValues]
    /\ ap = Zero
    /\ IdleNms /\ IdleIou /\ IdleEval

----------------------------------------------------------------------------
(* custom_eval *)

(* A prediction is <<x1, y1, x2, y2, confidence>>; the confidence is       *)
(* only ever compared, and is given as a rank.                             *)
PredUniverse == {BoxA \o <<2>>, BoxB \o <<1>>, BoxD \o <<1>>}

GtUniverse == {BoxA, BoxC}

BoxOf(p) == <<p[1], p[2], p[3], p[4]>>

(* np.argsort(-confidence): descending confidence, any order among ties *)
ArgSortDesc(preds) ==
    LET n == Len(preds)
    IN  {p \in [1..n -> 0..(n - 1)] :
            /\ \A a, b \in 1..n : a # b => p[a] # p[b]
            /\ \A a \in 1..n :
                  a < n => preds[p[a] + 1][5] >= preds[p[a + 1] + 1][5]}

(* BB = predictions[:, :4]; BB = BB[sorted_ind, :] *)
sorted_BB(preds, sorted_ind) ==
    [d \in 1..Len(preds) |-> BoxOf(preds[sorted_ind[d] + 1])]

(* the sort written through the view into the caller's array *)
predictions_sorted_in_place(preds, sorted_ind) ==
    [d \in 1..Len(preds) |-> preds[sorted_ind[d] + 1]]

(* What the caller's predictions_all[i] holds after BB = BB[sorted_ind, :]: *)
(* indexing with an index array yields a new array that BB is rebound to.  *)
predictions_after_sort(preds, sorted_ind) == preds

(* for d in range(nd): for gt in range(ngt):                               *)
(*     overlaps.append(bbox_iou(BBGT[gt], BB[d]))                          *)
eval_overlaps(BB, BBGT) ==
    LET nd == Len(BB)
        ngt == Len(BBGT)
    IN  [k \in 1..(nd * ngt) |->
            bbox_iou(BBGT[((k - 1) % ngt) + 1], BB[((k - 1) \div ngt) + 1])]

(* np.max of a non-empty array *)
RECURSIVE np_max(_)
np_max(s) ==
    IF Len(s) = 1 THEN s[1]
    ELSE Maximum(np_max(SubSeq(s, 1, Len(s) - 1)), s[Len(s)])

(* ovmax >= ovthresh *)
is_tp_ge(ovmax, thr) == Ge(ovmax, thr)

(* if ovmax > ovthresh *)
is_tp(ovmax, thr) == Gt(ovmax, thr)

(* the flags taken as they are, not accumulated *)
cumsum_none(s) == s

(* np.cumsum *)
RECURSIVE cumsum(_)
cumsum(s) ==
    IF Len(s) = 0 THEN <<>>
    ELSE LET c == cumsum(SubSeq(s, 1, Len(s) - 1))
         IN  Append(c, (IF Len(c) = 0 THEN 0 ELSE c[Len(c)]) + s[Len(s)])

(* rec = tp / float(num_gts) *)
eval_rec(ctp, n) == [k \in 1..Len(ctp) |-> Div(ctp[k], n)]

(* prec = tp / np.maximum(tp + fp, eps): the counts are integers, so the   *)
(* floor eps replaces the denominator only when tp + fp = 0, and then      *)
(* tp = 0 and the quotient is 0.                                           *)
eval_prec(ctp, cfp) ==
    [k \in 1..Len(ctp) |->
        IF ctp[k] + cfp[k] > 0 THEN Div(ctp[k], ctp[k] + cfp[k]) ELSE Zero]

CustomEvalCall ==
    /\ mode = "eval" /\ pc = "call"
    /\ tp' = [k \in 1..image_num |-> 0]
    /\ fp' = [k \in 1..image_num |-> 0]
    /\ img' = 0
    /\ pc' = "loop"
    /\ UNCHANGED <<mode, err, image_num, predictions, ground_truths, num_gts, ovthresh>>
    /\ UNCHANGED <<nmsVars, iouVars, apVars>>

(* predictions = predictions_all[i]; ground_truths = ground_truths_all[i]: *)
(* the lists of image i are any lists the caller may have supplied.        *)
CustomEvalLoad ==
    /\ mode = "eval" /\ pc = "loop"
    /\ img < image_num
    /\ predictions' \in SeqsUpTo(PredUniverse, MaxPreds)
    /\ ground_truths' \in SeqsUpTo(GtUniverse, MaxGts)
    /\ pc' = "image"
    /\ UNCHANGED <<mode, err, image_num, num_gts, ovthresh, img, tp, fp>>
    /\ UNCHANGED <<nmsVars, iouVars, apVars>>

(* the body of for i in range(image_num) *)
CustomEvalImage ==
    /\ mode = "eval" /\ pc = "image"
    /\ IF Len(predictions) = 0
       THEN /\ fp' = [fp EXCEPT ![img + 1] = 1]
            /\ img' = img + 1
            /\ pc' = "loop"
            /\ UNCHANGED <<tp, err, predictions>>
       ELSE \E sorted_ind \in ArgSortDesc(predictions) :
            LET BB == sorted_BB(predictions, sorted_ind)
                overlaps == eval_overlaps(BB, ground_truths)
            IN  /\ predictions' = predictions_after_sort(predictions, sorted_ind)
                /\ IF Len(overlaps) = 0
                   THEN /\ err' = "ValueError"
                        /\ pc' = "raised"
                        /\ UNCHANGED <<tp, fp, img>>
                   ELSE /\ IF is_tp(np_max(overlaps), ovthresh)
                           THEN /\ tp' = [tp EXCEPT ![img + 1] = 1]
                                /\ fp' = fp
                           ELSE /\ fp' = [fp EXCEPT ![img + 1] = 1]
                                /\ tp' = tp
                        /\ img' = img + 1
                        /\ pc' = "loop"
                        /\ err' = err
    /\ UNCHANGED <<mode, image_num, ground_truths, num_gts, ovthresh>>
    /\ UNCHANGED <<nmsVars, iouVars, apVars>>

(* Compute precision recall; return rec, prec, ap *)
CustomEvalFinish ==
    /\ mode = "eval" /\ pc = "loop"
    /\ img = image_num
    /\ fp' = cumsum(fp)
    /\ tp' = cumsum(tp)
    /\ rec' = eval_rec(tp', num_gts)
    /\ prec' = eval_prec(tp', fp')
    /\ ap' = average_precision(rec', prec')
    /\ pc' = "done"
    /\ UNCHANGED <<mode, err, image_num, predictions, ground_truths, num_gts, ovthresh, img>>
    /\ UNCHANGED <<nmsVars, iouVars>>

EvalThresholds == {Div(1, 2), Div(2, 3)}

InitEval ==
    /\ mode = "eval" /\ pc = "call" /\ err = "none"
    /\ image_num \in 0..MaxImages
    /\ predictions = <<>> /\ ground_truths = <<>>
    /\ num_gts \in 1..MaxNumGts
    /\ ovthresh \in EvalThresholds
    /\ img = 0 /\ tp = <<>> /\ fp = <<>>
    /\ IdleNms /\ IdleIou /\ IdleAp

----------------------------------------------------------------------------
(* Properties *)

(* keep[:count], the indices nms returns as kept *)
Kept == [k \in 1..count |-> keep[k]]

AllValid(bxs) == \A k \in 1..Len(bxs) : ValidBox(bxs[k])

NmsDone == mode = "nms" /\ pc = "done"

(* custom_eval has just processed image img - 1, whose lists are           *)
(* predictions and ground_truths                                           *)
ImageProcessed == mode = "eval" /\ pc = "loop" /\ img > 0

PairIoUs ==
    {bbox_iou(ground_truths[g], BoxOf(predictions[d])) :
        d \in 1..Len(predictions), g \in 1..Len(ground_truths)}

(* C1: an image with predictions and ground truths is a true positive      *)
(* (tp = 1, fp = 0) exactly when some prediction x ground-truth pair has   *)
(* bbox_iou strictly above the threshold, and a false positive (tp = 0,    *)
(* fp = 1) otherwise; an image without predictions is a false positive.    *)
C1_ImageFlag ==
    ImageProcessed =>
        /\ Len(predictions) = 0 => tp[img] = 0 /\ fp[img] = 1
        /\ (Len(predictions) > 0 /\ Len(ground_truths) > 0
              /\ \A v \in PairIoUs : ~IsNaN(v)) =>
              IF \E v \in PairIoUs : Gt(v, ovthresh)
              THEN tp[img] = 1 /\ fp[img] = 0
              ELSE tp[img] = 0 /\ fp[img] = 1

(* the best IoU of the image equals the threshold: a false positive *)
C1_Witness ==
    /\ ImageProcessed
    /\ Len(predictions) > 0 /\ Len(ground_truths) > 0
    /\ ovthresh \in PairIoUs
    /\ \A v \in PairIoUs : Le(v, ovthresh)
    /\ tp[img] = 0 /\ fp[img] = 1

(* C2: the count nms returns is at most top_k and at most the number of    *)
(* input boxes, for every top_k including 0.                               *)
C2_CountBounded == NmsDone => count <= top_k /\ count <= Len(boxes)

(* C3: a second run of nms on the boxes kept by the first, with the same   *)
(* overlap and top_k, keeps all of them in the same order.                 *)
C3_IdempotentInOrder ==
    (NmsDone /\ run = 2) =>
        /\ count = first.count
        /\ Kept = [k \in 1..first.count |-> k - 1]

(* C3 as amended: the second run keeps all of them; they come in the same  *)
(* order when their scores are pairwise distinct.                          *)
C3_IdempotentAsSet ==
    (NmsDone /\ run = 2) =>
        /\ count = first.count
        /\ Range(Kept) = 0..(first.count - 1)
        /\ (\A a, b \in 1..Len(scores) : a # b => scores[a] # scores[b]) =>
              Kept = [k \in 1..first.count |-> k - 1]

(* the first run suppressed a box and kept at least two *)
C3_Witness ==
    /\ NmsDone /\ run = 2
    /\ first.count < Len(first.boxes)
    /\ count >= 2

(* C4: with overlap 1.0 nms keeps all N input boxes. *)
C4_KeepsAll ==
    (NmsDone /\ overlap = One /\ AllValid(boxes)) =>
        /\ count = Len(boxes)
        /\ Range(Kept) = 0..(Len(boxes) - 1)

(* C4 as amended: with overlap 1.0 nms suppresses nothing: it keeps all N  *)
(* boxes when top_k >= N, and the top_k highest-scoring ones when          *)
(* 1 <= top_k < N.                                                         *)
C4_KeepsAllWithinTopK ==
    (NmsDone /\ overlap = One /\ AllValid(boxes)) =>
        /\ top_k >= Len(boxes) =>
              count = Len(boxes) /\ Range(Kept) = 0..(Len(boxes) - 1)
        /\ (1 <= top_k /\ top_k < Len(boxes)) =>
              /\ count = top_k
              /\ Cardinality(Range(Kept)) = top_k
              /\ \A j \in 0..(Len(boxes) - 1) : \A k \in Range(Kept) :
                    j \notin Range(Kept) => scores[j + 1] <= scores[k + 1]

(* two identical boxes among three, all kept *)
C4_Witness ==
    /\ NmsDone /\ overlap = One /\ AllValid(boxes)
    /\ Len(boxes) = 3 /\ top_k = 3 /\ count = 3
    /\ boxes[1] = boxes[2]

InUnit(v) == Le(Zero, v) /\ Le(v, One)

ApDone == pc = "done" /\ mode \in {"ap", "eval"}

(* C5: 0 <= AP <= 1, in particular for every curve custom_eval derives     *)
(* from any flags and any positive num_gts.                                *)
C5_ApBounded == ApDone => InUnit(ap)

(* C5 as amended: 0 <= AP <= 1 for recall and precision values in [0, 1],  *)
(* in particular for every curve custom_eval derives when num_gts is at    *)
(* least the number of true-positive flags.                                *)
C5_ApBoundedValid ==
    /\ (ApDone /\ \A k \in 1..Len(rec) : InUnit(rec[k]) /\ InUnit(prec[k])) =>
          InUnit(ap)
    /\ (ApDone /\ mode = "eval" /\ image_num > 0 /\ tp[image_num] <= num_gts) =>
          InUnit(ap)

(* every image a true positive, num_gts of them: AP = 1 *)
C5_Witness ==
    /\ ApDone /\ mode = "eval"
    /\ image_num >= 2 /\ tp[image_num] = num_gts
    /\ ap = One

RECURSIVE SumTo(_, _)
SumTo(s, k) == IF k = 0 THEN 0 ELSE SumTo(s, k - 1) + s[k]

(* C6: custom_eval's final step turns the flags into cumulative sums in    *)
(* image order, recall = cumulative tp / num_gts, precision = cumulative   *)
(* tp / (cumulative tp + cumulative fp); the flags (true positive, false   *)
(* positive) with num_gts = 2 give tp = [1,1], fp = [0,1],                 *)
(* recall = [0.5,0.5], precision = [1.0,0.5] and AP = 0.5.                 *)
C6_Accumulate ==
    [][(mode = "eval" /\ pc = "loop" /\ pc' = "done") =>
          /\ \A k \in 1..image_num :
                /\ tp'[k] = SumTo(tp, k)
                /\ fp'[k] = SumTo(fp, k)
                /\ rec'[k] = Div(tp'[k], num_gts)
                /\ prec'[k] = Div(tp'[k], tp'[k] + fp'[k])
          /\ Len(rec') = image_num /\ Len(prec') = image_num
          /\ (tp = <<1, 0>> /\ fp = <<0, 1>> /\ num_gts = 2) =>
                /\ tp' = <<1, 1>> /\ fp' = <<0, 1>>
                /\ rec' = <<Div(1, 2), Div(1, 2)>>
                /\ prec' = <<One, Div(1, 2)>>
                /\ ap' = Div(1, 2)]_vars

C6_Witness ==
    /\ mode = "eval" /\ pc = "done" /\ num_gts = 2
    /\ tp = <<1, 1>> /\ fp = <<0, 1>>
    /\ ap = Div(1, 2)

(* C7: an image with predictions and an empty ground-truth list is         *)
(* processed without an error.                                             *)
C7_EmptyGroundTruthCompletes ==
    (mode = "eval" /\ pc \in {"loop", "raised", "done"}
       /\ Len(predictions) > 0 /\ Len(ground_truths) = 0) =>
        err = "none" /\ pc # "raised"

(* a call that was passed a box of non-positive width or height and has    *)
(* run to its end                                                          *)
DegenerateCallDone ==
    \/ mode = "iou" /\ pc = "done" /\ ~(ValidBox(box1) /\ ValidBox(box2))
    \/ NmsDone /\ ~AllValid(boxes)
    \/ /\ ImageProcessed /\ Len(ground_truths) > 0
       /\ \E d \in 1..Len(predictions) : ~ValidBox(BoxOf(predictions[d]))

C8_SignedArea(b) == (b[3] - b[1] + 1) * (b[4] - b[2] + 1)

C9_InputsUnchanged ==
    [][/\ (mode = "nms" /\ ~(pc = "done" /\ run = 1)) =>
             boxes' = boxes /\ scores' = scores
       /\ mode = "iou" => box1' = box1 /\ box2' = box2
       /\ mode = "ap" => rec' = rec /\ prec' = prec
       /\ (mode = "eval" /\ pc = "image") =>
             predictions' = predictions /\ ground_truths' = ground_truths]_vars

(* an image whose two predictions came in ascending confidence *)
C9_Witness ==
    /\ ImageProcessed
    /\ Len(predictions) = 2 /\ predictions[1][5] < predictions[2][5]
    /\ Len(ground_truths) > 0

(* A suppressor over the sorted candidates s: emit the last, drop from the *)
(* rest every box whose IoU with it exceeds the threshold, repeat.         *)
RECURSIVE C10_SuppressBboxIou(_)
C10_SuppressBboxIou(s) ==
    IF Len(s) = 0 THEN <<>>
    ELSE LET i == s[Len(s)]
             Stays(j) == ~Gt(bbox_iou(boxes[i + 1], boxes[j + 1]), overlap)
         IN  <<i>> \o C10_SuppressBboxIou(SelectSeq(SubSeq(s, 1, Len(s) - 1), Stays))

C10_ContinuousIoU(a, b) ==
    LET w == clamp_min0(Min2(a[3], b[3]) - Max2(a[1], b[1]))
        h == clamp_min0(Min2(a[4], b[4]) - Max2(a[2], b[2]))
    IN  Div(w * h, (a[3] - a[1]) * (a[4] - a[2]) + (b[3] - b[1]) * (b[4] - b[2]) - w * h)

RECURSIVE C10_SuppressContinuous(_)
C10_SuppressContinuous(s) ==
    IF Len(s) = 0 THEN <<>>
    ELSE LET i == s[Len(s)]
             Stays(j) == ~Gt(C10_ContinuousIoU(boxes[i + 1], boxes[j + 1]), overlap)
         IN  <<i>> \o C10_SuppressContinuous(SelectSeq(SubSeq(s, 1, Len(s) - 1), Stays))

(* C10: nms keeps the indices a suppressor keeps whose overlap test is     *)
(* bbox_iou (areas and intersection with + 1) > threshold.                 *)
C10_NmsUsesBboxIou ==
    (NmsDone /\ AllValid(boxes)) => Kept = C10_SuppressBboxIou(order)

(* C10 as amended: nms keeps the indices a suppressor keeps whose overlap  *)
(* test is the IoU without the + 1, inter / (area_a + area_b - inter) with *)
(* area = (x2-x1)(y2-y1), > threshold.                                     *)
C10_NmsUsesContinuousIoU ==
    (NmsDone /\ AllValid(boxes)) => Kept = C10_SuppressContinuous(order)

(* two boxes of IoU 1/2 without and 2/3 with the + 1, threshold 1/2 *)
C10_Witness ==
    /\ NmsDone /\ AllValid(boxes)
    /\ count = 2 /\ overlap = Div(1, 2)
    /\ Kept # C10_SuppressBboxIou(order)

----------------------------------------------------------------------------
Init == InitNms \/ InitIou \/ InitAp \/ InitEval

Next ==
    \/ NmsCall \/ NmsRound \/ NmsReturn \/ NmsAgain
    \/ BboxIouCall
    \/ AveragePrecisionCall
    \/ CustomEvalCall \/ CustomEvalLoad \/ CustomEvalImage \/ CustomEvalFinish

Spec == Init /\ [][Next]_vars
====
